---- MODULE Spec2Model ----
(***************************************************************************)
(* Model of the silence monitor of sip-connect-studio: the React hook      *)
(* useSilenceDetection (src/src/hooks/useSilenceDetection.ts), and the     *)
(* component that uses it, CallInterface                                   *)
(* (src/src/components/CallInterface.tsx), and of the SilenceDetector of    *)
(* src/server/src/tests/silence-timeout.test.ts, of the                    *)
(* CallManagementSystem of the call management test suite, and of the      *)
(* SilenceDetector and MockAudioTrack of the audio silence test suite.     *)
(*                                                                         *)
(* Time is discrete.  One unit of `now` stands for 500 ms, so the 1000 ms  *)
(* sampling interval of the hook is CheckInterval = 2 units.  Timers are   *)
(* the event loop's timers: a set of records (id, kind, due); the refs of  *)
(* the hook hold timer ids, clearTimeout(id) removes the timer with that   *)
(* id and is a no-op when no such timer is pending.  A timer runs exactly  *)
(* when it is due: the clock does not advance past a due timer.  Timers    *)
(* due at the same instant, and calls made at that instant, run in any     *)
(* order.                                                                  *)
(*                                                                         *)
(* The history variables record what the properties speak about (the last  *)
(* call, the firings since it, the current burst of samples); they never   *)
(* influence the hook.  Each specification below runs the same hook under  *)
(* one observer, which maintains some of the history variables and leaves  *)
(* the others at their initial values.                                     *)
(***************************************************************************)
EXTENDS Integers, Sequences, FiniteSets, TLC

VARIABLES
  now,                   \* Date.now(), in units of 500 ms
  timers,                \* pending setTimeout / setInterval timers of the event loop
  silenceTimeoutRef,     \* useRef: id of the last silence timer, or Null
  debounceTimeoutRef,    \* useRef: id of the last debounce timer, or Null
  lastAudioActivityRef,  \* useRef: time of the last reset
  audioTracksRef,        \* useRef: Set of tracked tracks
  audioLevelCheckRef,    \* useRef: id of the sampling interval, or Null
  inflight,              \* tracks whose getStats() promise is not settled yet
  options,               \* the hook's options (fixed for a behaviour)
  lastOp,                \* history: the last call made on the monitor
  pre,                   \* history: what the monitor held when lastOp was called
  firedSince,            \* history: times onSilenceDetected ran since lastOp
  resetsSince,           \* history: times a debounced reset ran since lastOp
  burst,                 \* history: the current burst of above-threshold samples
  samples,               \* history: the above-threshold samples since the last start
  late,                  \* history: progress of a late join (start, addTrack, sample)
  observer,              \* which history variables this behaviour maintains
  callStatus,            \* CallInterface: useState<CallStatus>
  isAudioMuted,          \* CallInterface: useState(false)
  call,                  \* history: the current call of CallInterface
  detector,              \* SilenceDetector: timeoutId, lastSpeechTime
  heard,                 \* history: the last calls made on the SilenceDetector
  calls,                 \* CallManagementSystem: ActiveCall[]
  agents,                \* CallManagementSystem: Agent[]
  autoAssign,            \* CallManagementSystem: boolean
  cmsLast,               \* history: the last call made on the CallManagementSystem
  audio,                 \* audio silence suite: the fields of its SilenceDetector
  eventListeners,        \* MockAudioTrack: the 'audioLevel' listeners of each track
  stray                  \* history: the pending debounce timer is of an untracked track

vars == <<now, timers, silenceTimeoutRef, debounceTimeoutRef, lastAudioActivityRef,
          audioTracksRef, audioLevelCheckRef, inflight, options,
          lastOp, pre, firedSince, resetsSince, burst, samples, late, observer,
          callStatus, isAudioMuted, call, detector, heard,
          calls, agents, autoAssign, cmsLast, audio, eventListeners, stray>>

histVars == <<lastOp, pre, firedSince, resetsSince, burst, samples, late>>

uiVars == <<callStatus, isAudioMuted, call>>

detectorVars == <<detector, heard>>

cmsVars == <<calls, agents, autoAssign, cmsLast>>

suiteVars == <<audio, eventListeners, stray>>

hookVars == <<timers, silenceTimeoutRef, debounceTimeoutRef, lastAudioActivityRef,
              audioTracksRef, audioLevelCheckRef>>

(***************************************************************************)
(* Bounds and input domains                                                *)
(***************************************************************************)
MaxTime == 8                 \* the clock stops here
MaxBurst == 3                \* the calls of a burst are counted up to here
MaxCallTime == 24            \* the clock of a CallInterface behaviour stops here
MaxEndCalls == 2             \* the calls of handleEndCall are counted up to here
MaxDetectorTime == 24        \* the clock of a SilenceDetector behaviour stops here
MaxCmsTime == 1              \* the clock of a CallManagementSystem behaviour stops here
MaxCalls == 2                \* calls a CallManagementSystem receives
MaxAgents == 2               \* agents a CallManagementSystem registers
MaxListeners == 2            \* listeners registered on one MockAudioTrack

Tracks == {"trackA", "trackB"}

Null == 0                    \* a ref holding null

\* audio levels in hundredths: 0.02, 0.05, 0.08
StatsLevels == {2, 5, 8}

\* track.isMuted false, no getStats result: handleAudioLevel(0.1)
RejectFallbackLevel == 10

\* no getStats on the track, not muted, media live: handleAudioLevel(0.08)
LiveFallbackLevel == 8

\* setInterval(..., 1000): 1000 ms = 2 units of 500 ms
CheckInterval == 2

\* setInterval(..., 1000) of the call duration: 2 units of 500 ms
DurationInterval == 2

\* the options CallInterface creates the hook with: silenceThreshold 10000,
\* audioLevelThreshold 0.05, debounceDelay 500
CallOptions ==
  [silenceThreshold |-> 20, audioLevelThreshold |-> 5, debounceDelay |-> 1]

\* SilenceDetector: resetTimeout(threshold: number = 10000), 20 units of 500 ms
DefaultThreshold == 20

\* SilenceDetector: the thresholds startMonitoring is called with (3000, 5000
\* and 10000 ms)
DetectorThresholds == {6, 10, 20}

\* options the hook accepts: any numbers, a debounceDelay at or above the
\* silenceThreshold among them
AnyOptionChoices ==
  [silenceThreshold : {3}, audioLevelThreshold : {5}, debounceDelay : {2, 3, 4}]

\* options the hook is created with: thresholds in units of 500 ms
OptionChoices ==
  [silenceThreshold : {3, 4}, audioLevelThreshold : {5}, debounceDelay : {1, 2}]

(***************************************************************************)
(* The event loop's timers                                                 *)
(***************************************************************************)
TimerIds(ts) == {t.id : t \in ts}

\* clearTimeout(id) / clearInterval(id)
ClearTimer(ts, id) == {t \in ts : t.id # id}

\* the id setTimeout returns: one no pending timer and no ref holds
FreshId(ts, held) ==
  CHOOSE i \in 1..(Cardinality(ts) + Cardinality(held) + 1) :
    /\ i \notin TimerIds(ts) \cup held
    /\ \A j \in 1..(i - 1) : j \in TimerIds(ts) \cup held

Pending(kind) == {t \in timers : t.kind = kind}

Due(kind) == {t \in timers : t.kind = kind /\ t.due = now}

\* the time the pending timer of a kind is due, or -1
DueTime(ts, kind) ==
  IF \E t \in ts : t.kind = kind
    THEN (CHOOSE t \in ts : t.kind = kind).due
    ELSE -1

(***************************************************************************)
(* resetSilenceTimer, handleAudioLevel                                     *)
(***************************************************************************)
\* resetSilenceTimer() without its clearTimeout(silenceTimeoutRef.current)
ResetSilenceTimer_KeepsOld(ts, sref, dref, iref) ==
  LET ts2 == IF dref # Null THEN ClearTimer(ts, dref) ELSE ts
      id  == FreshId(ts2, {iref} \ {Null})
  IN  [lastActivity |-> now,
       timers       |-> ts2 \cup {[id |-> id, kind |-> "silence",
                                   due |-> now + options.silenceThreshold]},
       silenceRef   |-> id,
       debounceRef  |-> Null]

\* resetSilenceTimer() without its clearTimeout(debounceTimeoutRef.current)
ResetSilenceTimer_KeepsDebounce(ts, sref, dref, iref) ==
  LET ts1 == IF sref # Null THEN ClearTimer(ts, sref) ELSE ts
      id  == FreshId(ts1, {dref, iref} \ {Null})
  IN  [lastActivity |-> now,
       timers       |-> ts1 \cup {[id |-> id, kind |-> "silence",
                                   due |-> now + options.silenceThreshold]},
       silenceRef   |-> id,
       debounceRef  |-> Null]

\* resetSilenceTimer() without its lastAudioActivityRef.current = now
ResetSilenceTimer_StaleActivity(ts, sref, dref, iref) ==
  LET ts1 == IF sref # Null THEN ClearTimer(ts, sref) ELSE ts
      ts2 == IF dref # Null THEN ClearTimer(ts1, dref) ELSE ts1
      id  == FreshId(ts2, {iref} \ {Null})
  IN  [lastActivity |-> lastAudioActivityRef,
       timers       |-> ts2 \cup {[id |-> id, kind |-> "silence",
                                   due |-> now + options.silenceThreshold]},
       silenceRef   |-> id,
       debounceRef  |-> Null]

\* resetSilenceTimer(): the time of the reset, the timers and the two refs after it
ResetSilenceTimer(ts, sref, dref, iref) ==
  LET ts1 == IF sref # Null THEN ClearTimer(ts, sref) ELSE ts
      ts2 == IF dref # Null THEN ClearTimer(ts1, dref) ELSE ts1
      id  == FreshId(ts2, {iref} \ {Null})
  IN  [lastActivity |-> now,
       timers       |-> ts2 \cup {[id |-> id, kind |-> "silence",
                                   due |-> now + options.silenceThreshold]},
       silenceRef   |-> id,
       debounceRef  |-> Null]

\* handleAudioLevel(level) resetting at once instead of after debounceDelay
HandleAudioLevel_NoDelay(level, ts, sref, dref, iref) ==
  IF level > options.audioLevelThreshold
    THEN LET ts1 == IF dref # Null THEN ClearTimer(ts, dref) ELSE ts
             id  == FreshId(ts1, {sref, iref} \ {Null})
         IN  [timers      |-> ts1 \cup {[id |-> id, kind |-> "debounce", due |-> now]},
              debounceRef |-> id]
    ELSE [timers |-> ts, debounceRef |-> dref]

\* handleAudioLevel(level) with level >= threshold for level > threshold
HandleAudioLevel_AtThreshold(level, ts, sref, dref, iref) ==
  IF level >= options.audioLevelThreshold
    THEN LET ts1 == IF dref # Null THEN ClearTimer(ts, dref) ELSE ts
             id  == FreshId(ts1, {sref, iref} \ {Null})
         IN  [timers      |-> ts1 \cup {[id |-> id, kind |-> "debounce",
                                          due |-> now + options.debounceDelay]},
              debounceRef |-> id]
    ELSE [timers |-> ts, debounceRef |-> dref]

\* handleAudioLevel(level) without its clearTimeout(debounceTimeoutRef.current)
HandleAudioLevel_NoCancel(level, ts, sref, dref, iref) ==
  IF level > options.audioLevelThreshold
    THEN LET id == FreshId(ts, {sref, dref, iref} \ {Null})
         IN  [timers      |-> ts \cup {[id |-> id, kind |-> "debounce",
                                         due |-> now + options.debounceDelay]},
              debounceRef |-> id]
    ELSE [timers |-> ts, debounceRef |-> dref]

\* handleAudioLevel(level): the timers and the debounce ref after it
HandleAudioLevel(level, ts, sref, dref, iref) ==
  IF level > options.audioLevelThreshold
    THEN LET ts1 == IF dref # Null THEN ClearTimer(ts, dref) ELSE ts
             id  == FreshId(ts1, {sref, iref} \ {Null})
         IN  [timers      |-> ts1 \cup {[id |-> id, kind |-> "debounce",
                                          due |-> now + options.debounceDelay]},
              debounceRef |-> id]
    ELSE [timers |-> ts, debounceRef |-> dref]

(***************************************************************************)
(* Initial state: the hook just created                                    *)
(***************************************************************************)
NoTrack == "none"

NoBurst == [calls |-> 0, resets |-> 0, first |-> 0]

NoLate == [stage |-> 0, track |-> NoTrack, startAt |-> 0, joinAt |-> 0, sampleAt |-> 0]

\* an id no call and no agent has: agentId, currentCallId undefined
Undefined == -1

NoCmsCall ==
  [op |-> "new", callId |-> Undefined, agentId |-> Undefined, result |-> FALSE,
   auto |-> FALSE, available |-> FALSE]

NoneHeard == [threshold |-> 0, startAt |-> 0, speechAt |-> -1, fired |-> <<>>]

NoCall == [connectedAt |-> 0, quiet |-> TRUE, endCalls |-> 0]

\* the hook's refs and the component's state at the first render
Mounted ==
  /\ now = 0
  /\ timers = {}
  /\ silenceTimeoutRef = Null
  /\ debounceTimeoutRef = Null
  /\ lastAudioActivityRef = 0
  /\ audioTracksRef = {}
  /\ audioLevelCheckRef = Null
  /\ inflight = {}
  /\ callStatus = "idle"
  /\ isAudioMuted = FALSE
  /\ call = NoCall
  /\ detector = [timeoutId |-> Null, lastSpeechTime |-> 0]
  /\ heard = NoneHeard
  /\ calls = <<>>
  /\ agents = <<>>
  /\ autoAssign = FALSE
  /\ cmsLast = NoCmsCall
  /\ audio = [isActive |-> FALSE, silenceTimeoutRef |-> Null,
              debounceTimeoutRef |-> Null, lastAudioActivityRef |-> 0,
              audioTracks |-> {}]
  /\ eventListeners = [h \in Tracks |-> <<>>]
  /\ stray = FALSE
  /\ lastOp = [kind |-> "create", at |-> 0, track |-> NoTrack, level |-> 0]
  /\ pre = [silenceDue |-> -1, debounceDue |-> -1, lastActivity |-> 0,
            tracks |-> {}, monitoring |-> FALSE]
  /\ firedSince = <<>>
  /\ resetsSince = <<>>
  /\ burst = NoBurst
  /\ samples = [start |-> 0, last |-> 0, ok |-> TRUE]
  /\ late = NoLate

Created == Mounted /\ options \in OptionChoices

Init == Created /\ observer = "last"

InitBurst == Created /\ observer = "burst"

InitLate == Created /\ observer = "late"

(***************************************************************************)
(* The operations of the hook                                              *)
(***************************************************************************)
\* startAudioLevelChecking() without its clearInterval(audioLevelCheckRef.current)
StartAudioLevelChecking_KeepsOld(ts, sref, dref, iref) ==
  LET id == FreshId(ts, {sref, dref} \ {Null})
  IN  [timers   |-> ts \cup {[id |-> id, kind |-> "interval",
                              due |-> now + CheckInterval]},
       checkRef |-> id]

\* startAudioLevelChecking(): the timers and the interval ref after it
StartAudioLevelChecking(ts, sref, dref, iref) ==
  LET ts1 == IF iref # Null THEN ClearTimer(ts, iref) ELSE ts
      id  == FreshId(ts1, {sref, dref} \ {Null})
  IN  [timers   |-> ts1 \cup {[id |-> id, kind |-> "interval",
                               due |-> now + CheckInterval]},
       checkRef |-> id]

StartMonitoring ==
  LET r == ResetSilenceTimer(timers, silenceTimeoutRef, debounceTimeoutRef,
                             audioLevelCheckRef)
      c == StartAudioLevelChecking(r.timers, r.silenceRef, r.debounceRef,
                                   audioLevelCheckRef)
  IN  /\ lastAudioActivityRef' = r.lastActivity
      /\ timers' = c.timers
      /\ silenceTimeoutRef' = r.silenceRef
      /\ debounceTimeoutRef' = r.debounceRef
      /\ audioLevelCheckRef' = c.checkRef
      /\ UNCHANGED <<now, audioTracksRef, inflight, options>>

\* stopMonitoring() without its clearTimeout(silenceTimeoutRef.current)
StopMonitoring_KeepsSilence ==
  LET ts2 == IF debounceTimeoutRef # Null THEN ClearTimer(timers, debounceTimeoutRef)
                                          ELSE timers
      ts3 == IF audioLevelCheckRef # Null THEN ClearTimer(ts2, audioLevelCheckRef)
                                          ELSE ts2
  IN  /\ timers' = ts3
      /\ silenceTimeoutRef' = Null
      /\ debounceTimeoutRef' = Null
      /\ audioLevelCheckRef' = Null
      /\ audioTracksRef' = {}
      /\ UNCHANGED <<now, lastAudioActivityRef, inflight, options>>

\* stopMonitoring() without its clearTimeout(debounceTimeoutRef.current)
StopMonitoring_KeepsDebounce ==
  LET ts1 == IF silenceTimeoutRef # Null THEN ClearTimer(timers, silenceTimeoutRef)
                                         ELSE timers
      ts3 == IF audioLevelCheckRef # Null THEN ClearTimer(ts1, audioLevelCheckRef)
                                          ELSE ts1
  IN  /\ timers' = ts3
      /\ silenceTimeoutRef' = Null
      /\ debounceTimeoutRef' = Null
      /\ audioLevelCheckRef' = Null
      /\ audioTracksRef' = {}
      /\ UNCHANGED <<now, lastAudioActivityRef, inflight, options>>

\* stopMonitoring() without its audioTracksRef.current.clear()
StopMonitoring_KeepsTracks ==
  LET ts1 == IF silenceTimeoutRef # Null THEN ClearTimer(timers, silenceTimeoutRef)
                                         ELSE timers
      ts2 == IF debounceTimeoutRef # Null THEN ClearTimer(ts1, debounceTimeoutRef)
                                          ELSE ts1
      ts3 == IF audioLevelCheckRef # Null THEN ClearTimer(ts2, audioLevelCheckRef)
                                          ELSE ts2
  IN  /\ timers' = ts3
      /\ silenceTimeoutRef' = Null
      /\ debounceTimeoutRef' = Null
      /\ audioLevelCheckRef' = Null
      /\ UNCHANGED <<now, audioTracksRef, lastAudioActivityRef, inflight, options>>

StopMonitoring ==
  LET ts1 == IF silenceTimeoutRef # Null THEN ClearTimer(timers, silenceTimeoutRef)
                                         ELSE timers
      ts2 == IF debounceTimeoutRef # Null THEN ClearTimer(ts1, debounceTimeoutRef)
                                          ELSE ts1
      ts3 == IF audioLevelCheckRef # Null THEN ClearTimer(ts2, audioLevelCheckRef)
                                          ELSE ts2
  IN  /\ timers' = ts3
      /\ silenceTimeoutRef' = Null
      /\ debounceTimeoutRef' = Null
      /\ audioLevelCheckRef' = Null
      /\ audioTracksRef' = {}
      /\ UNCHANGED <<now, lastAudioActivityRef, inflight, options>>

\* addAudioTrack(track) without its has(track) check
AddAudioTrack_NoCheck(h) ==
  /\ LET r == ResetSilenceTimer(timers, silenceTimeoutRef, debounceTimeoutRef,
                                audioLevelCheckRef)
     IN  /\ audioTracksRef' = audioTracksRef \cup {h}
         /\ lastAudioActivityRef' = r.lastActivity
         /\ timers' = r.timers
         /\ silenceTimeoutRef' = r.silenceRef
         /\ debounceTimeoutRef' = r.debounceRef
         /\ UNCHANGED audioLevelCheckRef
  /\ UNCHANGED <<now, inflight, options>>

\* addAudioTrack(track) without its resetSilenceTimer()
AddAudioTrack_NoReset(h) ==
  /\ audioTracksRef' = audioTracksRef \cup {h}
  /\ UNCHANGED <<now, timers, silenceTimeoutRef, debounceTimeoutRef,
                 lastAudioActivityRef, audioLevelCheckRef, inflight, options>>

AddAudioTrack(h) ==
  /\ IF h \in audioTracksRef
       THEN UNCHANGED hookVars
       ELSE LET r == ResetSilenceTimer(timers, silenceTimeoutRef, debounceTimeoutRef,
                                       audioLevelCheckRef)
            IN  /\ audioTracksRef' = audioTracksRef \cup {h}
                /\ lastAudioActivityRef' = r.lastActivity
                /\ timers' = r.timers
                /\ silenceTimeoutRef' = r.silenceRef
                /\ debounceTimeoutRef' = r.debounceRef
                /\ UNCHANGED audioLevelCheckRef
  /\ UNCHANGED <<now, inflight, options>>

\* removeAudioTrack(track) resetting the silence timer as addAudioTrack does
RemoveAudioTrack_Resets(h) ==
  /\ LET r == ResetSilenceTimer(timers, silenceTimeoutRef, debounceTimeoutRef,
                                audioLevelCheckRef)
     IN  /\ audioTracksRef' = audioTracksRef \ {h}
         /\ lastAudioActivityRef' = r.lastActivity
         /\ timers' = r.timers
         /\ silenceTimeoutRef' = r.silenceRef
         /\ debounceTimeoutRef' = r.debounceRef
         /\ UNCHANGED audioLevelCheckRef
  /\ UNCHANGED <<now, inflight, options>>

RemoveAudioTrack(h) ==
  /\ audioTracksRef' = audioTracksRef \ {h}
  /\ UNCHANGED <<now, timers, silenceTimeoutRef, debounceTimeoutRef,
                 lastAudioActivityRef, audioLevelCheckRef, inflight, options>>

RecordActivity ==
  LET r == ResetSilenceTimer(timers, silenceTimeoutRef, debounceTimeoutRef,
                             audioLevelCheckRef)
  IN  /\ lastAudioActivityRef' = r.lastActivity
      /\ timers' = r.timers
      /\ silenceTimeoutRef' = r.silenceRef
      /\ debounceTimeoutRef' = r.debounceRef
      /\ UNCHANGED <<now, audioTracksRef, audioLevelCheckRef, inflight, options>>

(***************************************************************************)
(* The sampler: every CheckInterval the tracked tracks are asked for their *)
(* level, and handleAudioLevel is called with what they answer.            *)
(***************************************************************************)
\* 'getStats' in track: trackA has it (the promise path), trackB has not (the
\* live-media path)
HasGetStats(h) == h = "trackA"

\* the interval re-armed, and getStats() asked of the tracks that have it
AfterCheck(t) == (timers \ {t}) \cup {[t EXCEPT !.due = now + CheckInterval]}

\* the sampling interval runs and handleAudioLevel is not called: getStats()
\* is called on the tracked tracks that have it, the others are muted or not live
CheckTickQuiet ==
  /\ \E t \in Due("interval") : timers' = AfterCheck(t)
  /\ inflight' = inflight \cup {h \in audioTracksRef : HasGetStats(h)}
  /\ UNCHANGED <<now, silenceTimeoutRef, debounceTimeoutRef, lastAudioActivityRef,
                 audioTracksRef, audioLevelCheckRef, options>>

\* the sampling interval runs and the tracked track h, without getStats, is
\* unmuted and live: handleAudioLevel(0.08, track.sid)
CheckTickLive(h) ==
  /\ h \in audioTracksRef
  /\ ~HasGetStats(h)
  /\ \E t \in Due("interval") :
       LET r == HandleAudioLevel(LiveFallbackLevel, AfterCheck(t), silenceTimeoutRef,
                                 debounceTimeoutRef, audioLevelCheckRef)
       IN  /\ timers' = r.timers
           /\ debounceTimeoutRef' = r.debounceRef
  /\ inflight' = inflight \cup {g \in audioTracksRef : HasGetStats(g)}
  /\ UNCHANGED <<now, silenceTimeoutRef, lastAudioActivityRef, audioTracksRef,
                 audioLevelCheckRef, options>>

\* handleAudioLevel(level, track.sid) is called when a promise settles
ReportLevel(level) ==
  LET r == HandleAudioLevel(level, timers, silenceTimeoutRef, debounceTimeoutRef,
                            audioLevelCheckRef)
  IN  /\ timers' = r.timers
      /\ debounceTimeoutRef' = r.debounceRef
      /\ UNCHANGED <<now, silenceTimeoutRef, lastAudioActivityRef, audioTracksRef,
                     audioLevelCheckRef, options>>

\* a getStats() promise resolves with an audioLevel
StatsResolve(h, level) ==
  /\ h \in inflight
  /\ inflight' = inflight \ {h}
  /\ ReportLevel(level)

\* a getStats() promise rejects and the track is not muted
StatsReject(h) ==
  /\ h \in inflight
  /\ inflight' = inflight \ {h}
  /\ ReportLevel(RejectFallbackLevel)

\* a getStats() promise settles and handleAudioLevel is not called: the stats
\* carry no audioLevel, or the promise rejects and the track is muted
StatsIgnored(h) ==
  /\ h \in inflight
  /\ inflight' = inflight \ {h}
  /\ UNCHANGED <<now, options, hookVars>>

(***************************************************************************)
(* The event loop                                                          *)
(***************************************************************************)
\* the silence timer running its callback and arming itself again
SilenceFire_Rearms ==
  /\ \E t \in Due("silence") :
       timers' = (timers \ {t}) \cup
                 {[t EXCEPT !.due = now + options.silenceThreshold]}
  /\ UNCHANGED <<now, silenceTimeoutRef, debounceTimeoutRef, lastAudioActivityRef,
                 audioTracksRef, audioLevelCheckRef, inflight, options>>

\* the silence timer runs: options.onSilenceDetected()
SilenceFire ==
  /\ \E t \in Due("silence") : timers' = timers \ {t}
  /\ UNCHANGED <<now, silenceTimeoutRef, debounceTimeoutRef, lastAudioActivityRef,
                 audioTracksRef, audioLevelCheckRef, inflight, options>>

\* the debounce timer runs: resetSilenceTimer()
DebounceFire ==
  /\ \E t \in Due("debounce") :
       LET r == ResetSilenceTimer(timers \ {t}, silenceTimeoutRef,
                                  debounceTimeoutRef, audioLevelCheckRef)
       IN  /\ lastAudioActivityRef' = r.lastActivity
           /\ timers' = r.timers
           /\ silenceTimeoutRef' = r.silenceRef
           /\ debounceTimeoutRef' = r.debounceRef
  /\ UNCHANGED <<now, audioTracksRef, audioLevelCheckRef, inflight, options>>

\* time passes; a due timer runs before the clock moves on
Horizon ==
  CASE observer = "call"     -> MaxCallTime
    [] observer = "detector" -> MaxDetectorTime
    [] observer = "cms"      -> MaxCmsTime
    [] OTHER                 -> MaxTime

Tick ==
  /\ now < Horizon
  /\ \A t \in timers : t.due > now
  /\ now' = now + 1
  /\ UNCHANGED <<hookVars, inflight, options>>

(***************************************************************************)
(* Observers.  A step of the hook is a call ("start", "stop", "addTrack",  *)
(* "removeTrack", "recordActivity", "reportLevel": handleAudioLevel is     *)
(* called), the silence callback ("fire"), a debounced reset ("reset"), or *)
(* neither ("quiet").                                                      *)
(***************************************************************************)
Calls == {"start", "stop", "addTrack", "removeTrack", "recordActivity", "reportLevel"}

Snapshot ==
  [silenceDue   |-> DueTime(timers, "silence"),
   debounceDue  |-> DueTime(timers, "debounce"),
   lastActivity |-> lastAudioActivityRef,
   tracks       |-> audioTracksRef,
   monitoring   |-> audioLevelCheckRef # Null]

Above(level) == level > options.audioLevelThreshold

\* the last call, what the monitor held before it, and what ran since
ObsLast(kind, h, level) ==
  /\ IF kind \in Calls
       THEN /\ lastOp' = [kind |-> kind, at |-> now, track |-> h, level |-> level]
            /\ pre' = Snapshot
            /\ firedSince' = <<>>
            /\ resetsSince' = <<>>
       ELSE /\ UNCHANGED <<lastOp, pre>>
            /\ firedSince' = IF kind = "fire" THEN Append(firedSince, now)
                                              ELSE firedSince
            /\ resetsSince' = IF kind = "reset" THEN Append(resetsSince, now)
                                                ELSE resetsSince
  /\ UNCHANGED <<burst, samples, late>>

\* The bursts of above-threshold samples.  A sample continues the burst when
\* it comes less than debounceDelay after the previous one with no other call
\* in between, and starts a new burst otherwise; a sample at or below the
\* threshold leaves the burst as it is; burst.first is the time of the first
\* sample of the burst, samples.last the time of the last above-threshold
\* sample (of the start, before the first).  samples.ok: so far every
\* above-threshold sample since the start was of a tracked track and came
\* less than silenceThreshold after the one before it (after the start, for
\* the first).
ObsBurst(kind, h, level) ==
  /\ burst' =
       IF kind = "reportLevel" /\ Above(level)
         THEN IF /\ burst.calls > 0
                 /\ burst.resets = 0
                 /\ now - samples.last < options.debounceDelay
                THEN [burst EXCEPT !.calls = IF @ < MaxBurst THEN @ + 1 ELSE @]
                ELSE [calls |-> 1, resets |-> 0, first |-> now]
       ELSE IF kind = "reportLevel" \/ kind \notin Calls
         THEN IF kind = "reset" /\ burst.calls > 0
                THEN [burst EXCEPT !.resets = IF @ < MaxBurst THEN @ + 1 ELSE @]
                ELSE burst
       ELSE NoBurst
  /\ samples' =
       IF kind = "start" THEN [start |-> now, last |-> now, ok |-> TRUE]
       ELSE IF kind = "reportLevel" /\ Above(level)
         THEN [samples EXCEPT
                 !.last = now,
                 !.ok = /\ @
                        /\ h \in audioTracksRef
                        /\ now - samples.last < options.silenceThreshold]
       ELSE samples
  /\ UNCHANGED <<lastOp, pre, firedSince, resetsSince, late>>

\* The late join: start() with no track (stage 1), then, before the silence
\* threshold has passed, addTrack(h) of a new handle (stage 2), then an
\* above-threshold sample of h (stage 3), with no other call in between;
\* firedSince and resetsSince are what ran since that sample.
ObsLate(kind, h, level) ==
  /\ late' =
       IF kind = "start" /\ audioTracksRef = {}
         THEN [NoLate EXCEPT !.stage = 1, !.startAt = now]
       ELSE IF /\ kind = "addTrack" /\ late.stage = 1
               /\ now - late.startAt < options.silenceThreshold
         THEN [late EXCEPT !.stage = 2, !.track = h, !.joinAt = now]
       ELSE IF /\ kind = "reportLevel" /\ late.stage = 2
               /\ h = late.track /\ Above(level)
         THEN [late EXCEPT !.stage = 3, !.sampleAt = now]
       ELSE IF kind \in Calls \/ (kind = "fire" /\ late.stage < 3)
         THEN NoLate
       ELSE late
  /\ firedSince' =
       IF kind \in Calls THEN <<>>
       ELSE IF kind = "fire" /\ late.stage = 3 THEN Append(firedSince, now)
       ELSE firedSince
  /\ resetsSince' =
       IF kind \in Calls THEN <<>>
       ELSE IF kind = "reset" /\ late.stage = 3 THEN Append(resetsSince, now)
       ELSE resetsSince
  /\ UNCHANGED <<lastOp, pre, burst, samples>>

(***************************************************************************)
(* Specifications                                                          *)
(***************************************************************************)
Obs(kind, h, level) ==
  /\ CASE observer = "last"  -> ObsLast(kind, h, level)
       [] observer = "burst" -> ObsBurst(kind, h, level)
       [] observer = "late"  -> ObsLate(kind, h, level)
  /\ UNCHANGED <<observer, uiVars, detectorVars, cmsVars, suiteVars>>

Next ==
  \/ StartMonitoring /\ Obs("start", NoTrack, 0)
  \/ StopMonitoring /\ Obs("stop", NoTrack, 0)
  \/ \E h \in Tracks : AddAudioTrack(h) /\ Obs("addTrack", h, 0)
  \/ \E h \in Tracks : RemoveAudioTrack(h) /\ Obs("removeTrack", h, 0)
  \/ RecordActivity /\ Obs("recordActivity", NoTrack, 0)
  \/ CheckTickQuiet /\ Obs("quiet", NoTrack, 0)
  \/ \E h \in Tracks : CheckTickLive(h) /\ Obs("reportLevel", h, LiveFallbackLevel)
  \/ \E h \in Tracks, level \in StatsLevels :
       StatsResolve(h, level) /\ Obs("reportLevel", h, level)
  \/ \E h \in Tracks : StatsReject(h) /\ Obs("reportLevel", h, RejectFallbackLevel)
  \/ \E h \in Tracks : StatsIgnored(h) /\ Obs("quiet", NoTrack, 0)
  \/ SilenceFire /\ Obs("fire", NoTrack, 0)
  \/ DebounceFire /\ Obs("reset", NoTrack, 0)
  \/ Tick /\ Obs("quiet", NoTrack, 0)

\* the hook, observed through its last call
Spec == Init /\ [][Next]_vars

\* the hook, observed through its bursts of samples
SpecBurst == InitBurst /\ [][Next]_vars

\* the hook, observed through its late joins
SpecLate == InitLate /\ [][Next]_vars

InitAnyOptions == Mounted /\ options \in AnyOptionChoices /\ observer = "late"

\* the hook created with any options
SpecAnyOptions == InitAnyOptions /\ [][Next]_vars

(***************************************************************************)
(* CallInterface.  The component creates the hook with CallOptions and     *)
(* drives it from two effects.  A render gives the effects a new           *)
(* silenceDetection object (the hook returns a new object at every         *)
(* render), so the silence effect, whose dependencies are callStatus and   *)
(* silenceDetection, is cleaned up and run again at every render; the      *)
(* duration effect depends on callStatus alone.  A handler that sets state *)
(* is one step with the render it causes and the effects of that render.   *)
(* Tracks are subscribed (the local track is added) at any time of a       *)
(* connected call.                                                         *)
(***************************************************************************)
\* stopMonitoring(): the timers after it
StopTimers(ts, sref, dref, iref) ==
  LET ts1 == IF sref # Null THEN ClearTimer(ts, sref) ELSE ts
      ts2 == IF dref # Null THEN ClearTimer(ts1, dref) ELSE ts1
  IN  IF iref # Null THEN ClearTimer(ts2, iref) ELSE ts2

\* the effects of a render in which callStatus is status, after the timers
\* ts, the refs and the last reset time `last` the handler left.  Cleanups
\* first: clearInterval of the duration interval when callStatus changed,
\* stopMonitoring(); then the effects: the duration interval when callStatus
\* changed to connected, startMonitoring() when connected and
\* stopMonitoring() otherwise.  The tracked set is empty afterwards.
RenderEffects(status, changed, ts, sref, dref, iref, last) ==
  LET ts0 == IF changed THEN {t \in ts : t.kind # "duration"} ELSE ts
      ts1 == StopTimers(ts0, sref, dref, iref)
      ts2 == IF changed /\ status = "connected"
               THEN ts1 \cup {[id |-> FreshId(ts1, {}), kind |-> "duration",
                               due |-> now + DurationInterval]}
               ELSE ts1
      r   == ResetSilenceTimer(ts2, Null, Null, Null)
      c   == StartAudioLevelChecking(r.timers, r.silenceRef, r.debounceRef, Null)
  IN  IF status = "connected"
        THEN [timers |-> c.timers, silenceRef |-> r.silenceRef,
              checkRef |-> c.checkRef, lastActivity |-> r.lastActivity]
        ELSE [timers |-> ts2, silenceRef |-> Null,
              checkRef |-> Null, lastActivity |-> last]

\* setCallStatus(status) or another state change, and the render it causes
Render(status, ts, sref, dref, iref, last) ==
  LET e == RenderEffects(status, status # callStatus, ts, sref, dref, iref, last)
  IN  /\ callStatus' = status
      /\ timers' = e.timers
      /\ silenceTimeoutRef' = e.silenceRef
      /\ debounceTimeoutRef' = Null
      /\ audioLevelCheckRef' = e.checkRef
      /\ lastAudioActivityRef' = e.lastActivity
      /\ audioTracksRef' = {}
      /\ UNCHANGED <<now, inflight, options>>

RenderNow(status) ==
  Render(status, timers, silenceTimeoutRef, debounceTimeoutRef, audioLevelCheckRef,
         lastAudioActivityRef)

\* connectToRoom(): setCallStatus('connecting')
ConnectToRoom ==
  /\ callStatus \in {"idle", "disconnected", "error"}
  /\ RenderNow("connecting")
  /\ UNCHANGED <<isAudioMuted, call>>

\* connectToRoom() fails: setCallStatus('error')
ConnectFailed ==
  /\ callStatus = "connecting"
  /\ RenderNow("error")
  /\ UNCHANGED <<isAudioMuted, call>>

\* ConnectionState.Connected: setCallStatus('connected')
RoomConnected ==
  /\ callStatus = "connecting"
  /\ RenderNow("connected")
  /\ call' = [call EXCEPT !.connectedAt = now, !.quiet = TRUE]
  /\ UNCHANGED isAudioMuted

\* ConnectionState.Disconnected: setCallStatus('disconnected')
RoomDisconnected ==
  /\ callStatus = "connected"
  /\ RenderNow("disconnected")
  /\ UNCHANGED <<isAudioMuted, call>>

\* the duration interval runs: setCallDuration(seconds since the call started)
DurationTick ==
  /\ \E t \in Due("duration") :
       Render(callStatus,
              (timers \ {t}) \cup {[t EXCEPT !.due = now + DurationInterval]},
              silenceTimeoutRef, debounceTimeoutRef, audioLevelCheckRef,
              lastAudioActivityRef)
  /\ UNCHANGED <<isAudioMuted, call>>

\* handleTrackSubscribed, or the local track after connecting: addAudioTrack(track)
TrackSubscribed(h) ==
  /\ callStatus = "connected"
  /\ AddAudioTrack(h)
  /\ UNCHANGED uiVars

\* handleTrackUnsubscribed: removeAudioTrack(track)
TrackUnsubscribed(h) ==
  /\ callStatus = "connected"
  /\ RemoveAudioTrack(h)
  /\ UNCHANGED uiVars

\* toggleMute(): setIsAudioMuted(!isAudioMuted), and recordActivity() when unmuting
ToggleMute ==
  /\ isAudioMuted' = ~isAudioMuted
  /\ IF isAudioMuted
       THEN LET r == ResetSilenceTimer(timers, silenceTimeoutRef, debounceTimeoutRef,
                                       audioLevelCheckRef)
            IN  Render(callStatus, r.timers, r.silenceRef, r.debounceRef,
                       audioLevelCheckRef, r.lastActivity)
       ELSE RenderNow(callStatus)
  /\ call' = [call EXCEPT !.quiet = @ /\ ~isAudioMuted]

\* the silence timer runs: onSilenceDetected() calls handleEndCall(), which
\* disconnects the room and sets callStatus to 'idle'
EndCallOnSilence ==
  /\ \E t \in Due("silence") :
       Render("idle", timers \ {t}, silenceTimeoutRef, debounceTimeoutRef,
              audioLevelCheckRef, lastAudioActivityRef)
  /\ call' = [call EXCEPT !.endCalls = IF @ < MaxEndCalls THEN @ + 1 ELSE @]
  /\ UNCHANGED isAudioMuted

\* a step of the hook inside the component; a sample above the threshold ends
\* the quiet of the call
InCall(level) ==
  /\ call' = [call EXCEPT !.quiet = @ /\ ~Above(level)]
  /\ UNCHANGED <<callStatus, isAudioMuted, histVars, observer, detectorVars,
                 cmsVars, suiteVars>>

\* a step of the component: the history of the hook alone is not kept
Unobserved == UNCHANGED <<histVars, observer, detectorVars, cmsVars, suiteVars>>

NextCall ==
  \/ ConnectToRoom /\ Unobserved
  \/ ConnectFailed /\ Unobserved
  \/ RoomConnected /\ Unobserved
  \/ RoomDisconnected /\ Unobserved
  \/ DurationTick /\ Unobserved
  \/ \E h \in Tracks : TrackSubscribed(h) /\ Unobserved
  \/ \E h \in Tracks : TrackUnsubscribed(h) /\ Unobserved
  \/ ToggleMute /\ Unobserved
  \/ EndCallOnSilence /\ Unobserved
  \/ CheckTickQuiet /\ InCall(0)
  \/ \E h \in Tracks : CheckTickLive(h) /\ InCall(LiveFallbackLevel)
  \/ \E h \in Tracks, level \in StatsLevels : StatsResolve(h, level) /\ InCall(level)
  \/ \E h \in Tracks : StatsReject(h) /\ InCall(RejectFallbackLevel)
  \/ \E h \in Tracks : StatsIgnored(h) /\ InCall(0)
  \/ DebounceFire /\ InCall(0)
  \/ Tick /\ InCall(0)

InitCall == Mounted /\ options = CallOptions /\ observer = "call"

\* CallInterface with its hook
SpecCall == InitCall /\ [][NextCall]_vars

(***************************************************************************)
(* The SilenceDetector of silence-timeout.test.ts: one timeout, armed by   *)
(* startMonitoring(silenceThreshold) and by onSpeechDetected().            *)
(***************************************************************************)
\* resetTimeout(threshold): the timers and the timeoutId after it
SilenceDetector_resetTimeout(threshold) ==
  LET ts1 == IF detector.timeoutId # Null THEN ClearTimer(timers, detector.timeoutId)
                                          ELSE timers
      id  == FreshId(ts1, {})
  IN  [timers    |-> ts1 \cup {[id |-> id, kind |-> "timeout", due |-> now + threshold]},
       timeoutId |-> id]

\* what a step of the SilenceDetector leaves alone
DetectorFrame ==
  UNCHANGED <<now, silenceTimeoutRef, debounceTimeoutRef, lastAudioActivityRef,
              audioTracksRef, audioLevelCheckRef, inflight, options, histVars,
              observer, uiVars, cmsVars, suiteVars>>

\* startMonitoring(silenceThreshold)
SilenceDetector_startMonitoring(silenceThreshold) ==
  /\ LET r == SilenceDetector_resetTimeout(silenceThreshold)
     IN  /\ timers' = r.timers
         /\ detector' = [detector EXCEPT !.timeoutId = r.timeoutId]
  /\ heard' = [threshold |-> silenceThreshold, startAt |-> now, speechAt |-> -1,
               fired |-> <<>>]
  /\ DetectorFrame

\* onSpeechDetected(): this.resetTimeout() with no argument
SilenceDetector_onSpeechDetected ==
  /\ LET r == SilenceDetector_resetTimeout(DefaultThreshold)
     IN  /\ timers' = r.timers
         /\ detector' = [timeoutId |-> r.timeoutId, lastSpeechTime |-> now]
  /\ heard' = [heard EXCEPT !.speechAt = now, !.fired = <<>>]
  /\ DetectorFrame

\* stop()
SilenceDetector_stop ==
  /\ timers' = IF detector.timeoutId # Null THEN ClearTimer(timers, detector.timeoutId)
                                            ELSE timers
  /\ detector' = [detector EXCEPT !.timeoutId = Null]
  /\ heard' = NoneHeard
  /\ DetectorFrame

\* the timeout runs: onSilenceCallback()
SilenceDetector_timeout ==
  /\ \E t \in Due("timeout") : timers' = timers \ {t}
  /\ heard' = [heard EXCEPT !.fired = Append(@, now)]
  /\ UNCHANGED detector
  /\ DetectorFrame

DetectorTick ==
  /\ Tick
  /\ UNCHANGED <<histVars, observer, uiVars, detectorVars, cmsVars, suiteVars>>

NextDetector ==
  \/ \E th \in DetectorThresholds : SilenceDetector_startMonitoring(th)
  \/ SilenceDetector_onSpeechDetected
  \/ SilenceDetector_stop
  \/ SilenceDetector_timeout
  \/ DetectorTick

InitDetector == Mounted /\ options = CallOptions /\ observer = "detector"

\* the SilenceDetector of silence-timeout.test.ts
SpecDetector == InitDetector /\ [][NextDetector]_vars

(***************************************************************************)
(* The CallManagementSystem of the call management test suite.  In its     *)
(* behaviours a unit of `now` is one millisecond of Date.now().  An id is  *)
(* the timestamp it is made of (toString is one to one), a roomId the pair *)
(* of the prefix "call" and the timestamp.                                 *)
(***************************************************************************)
\* the ids assignCall and endCall are called with
IdChoices == 0..MaxCmsTime

\* Array.prototype.find(x => x.id === id): the index of the first match, or 0
FindIndex(seq, id) ==
  IF \E i \in 1..Len(seq) : seq[i].id = id
    THEN CHOOSE i \in 1..Len(seq) :
           /\ seq[i].id = id
           /\ \A j \in 1..(i - 1) : seq[j].id # id
    ELSE 0

\* this.agents.find(a => a.status === 'available'): its index, or 0
FirstAvailable(ags) ==
  IF \E i \in 1..Len(ags) : ags[i].status = "available"
    THEN CHOOSE i \in 1..Len(ags) :
           /\ ags[i].status = "available"
           /\ \A j \in 1..(i - 1) : ags[j].status # "available"
    ELSE 0

\* assignCall without its agent.status !== 'available' check
Assigned_AnyStatus(cs, ags, callId, agentId) ==
  LET ci == FindIndex(cs, callId)
      ai == FindIndex(ags, agentId)
  IN  IF ci = 0 \/ ai = 0
        THEN [calls |-> cs, agents |-> ags, result |-> FALSE]
        ELSE [calls  |-> [cs EXCEPT ![ci].status = "connected",
                                    ![ci].agentId = agentId],
              agents |-> [ags EXCEPT ![ai].status = "busy",
                                     ![ai].currentCallId = callId],
              result |-> TRUE]

\* assignCall(callId, agentId): the calls, the agents and the value returned
Assigned(cs, ags, callId, agentId) ==
  LET ci == FindIndex(cs, callId)
      ai == FindIndex(ags, agentId)
  IN  IF ci = 0 \/ ai = 0 \/ ags[ai].status # "available"
        THEN [calls |-> cs, agents |-> ags, result |-> FALSE]
        ELSE [calls  |-> [cs EXCEPT ![ci].status = "connected",
                                    ![ci].agentId = agentId],
              agents |-> [ags EXCEPT ![ai].status = "busy",
                                     ![ai].currentCallId = callId],
              result |-> TRUE]

\* endCall leaving the agent of the call as it is
Ended_KeepsAgent(cs, ags, callId) ==
  LET ci == FindIndex(cs, callId)
  IN  IF ci = 0
        THEN [calls |-> cs, agents |-> ags, result |-> FALSE]
        ELSE [calls |-> [cs EXCEPT ![ci].status = "ended"], agents |-> ags,
              result |-> TRUE]

\* endCall(callId): the calls, the agents and the value returned
Ended(cs, ags, callId) ==
  LET ci == FindIndex(cs, callId)
      ai == IF ci # 0 /\ cs[ci].agentId # Undefined
              THEN FindIndex(ags, cs[ci].agentId) ELSE 0
  IN  IF ci = 0
        THEN [calls |-> cs, agents |-> ags, result |-> FALSE]
        ELSE [calls  |-> [cs EXCEPT ![ci].status = "ended"],
              agents |-> IF ai # 0
                           THEN [ags EXCEPT ![ai].status = "available",
                                            ![ai].currentCallId = Undefined]
                           ELSE ags,
              result |-> TRUE]

\* what a step of the CallManagementSystem leaves alone
CmsFrame ==
  UNCHANGED <<now, hookVars, inflight, options, histVars, observer, uiVars,
              detectorVars, suiteVars>>

CmsCalled(op, callId, agentId, result) ==
  cmsLast' = [op |-> op, callId |-> callId, agentId |-> agentId, result |-> result,
              auto |-> autoAssign, available |-> FirstAvailable(agents) # 0]

receiveCall ==
  /\ Len(calls) < MaxCalls
  /\ LET newCall == [id |-> now, roomId |-> <<"call", now>>, status |-> "waiting",
                     agentId |-> Undefined]
         cs1     == Append(calls, newCall)
         a       == FirstAvailable(agents)
         r       == IF autoAssign /\ a # 0
                      THEN Assigned(cs1, agents, newCall.id, agents[a].id)
                      ELSE [calls |-> cs1, agents |-> agents, result |-> FALSE]
     IN  /\ calls' = r.calls
         /\ agents' = r.agents
  /\ CmsCalled("receiveCall", now, Undefined, TRUE)
  /\ UNCHANGED autoAssign
  /\ CmsFrame

registerAgent ==
  /\ Len(agents) < MaxAgents
  /\ agents' = Append(agents, [id |-> now, status |-> "available",
                               currentCallId |-> Undefined])
  /\ CmsCalled("registerAgent", Undefined, now, TRUE)
  /\ UNCHANGED <<calls, autoAssign>>
  /\ CmsFrame

assignCall(callId, agentId) ==
  /\ LET r == Assigned(calls, agents, callId, agentId)
     IN  /\ calls' = r.calls
         /\ agents' = r.agents
         /\ CmsCalled("assignCall", callId, agentId, r.result)
  /\ UNCHANGED autoAssign
  /\ CmsFrame

endCall(callId) ==
  /\ LET r == Ended(calls, agents, callId)
     IN  /\ calls' = r.calls
         /\ agents' = r.agents
         /\ CmsCalled("endCall", callId, Undefined, r.result)
  /\ UNCHANGED autoAssign
  /\ CmsFrame

setAutoAssign(enabled) ==
  /\ autoAssign' = enabled
  /\ CmsCalled("setAutoAssign", Undefined, Undefined, TRUE)
  /\ UNCHANGED <<calls, agents>>
  /\ CmsFrame

clear ==
  /\ calls' = <<>>
  /\ agents' = <<>>
  /\ autoAssign' = FALSE
  /\ CmsCalled("clear", Undefined, Undefined, TRUE)
  /\ CmsFrame

CmsTick ==
  /\ Tick
  /\ UNCHANGED <<histVars, observer, uiVars, detectorVars, cmsVars, suiteVars>>

NextCms ==
  \/ receiveCall
  \/ registerAgent
  \/ \E callId \in IdChoices, agentId \in IdChoices : assignCall(callId, agentId)
  \/ \E callId \in IdChoices : endCall(callId)
  \/ \E enabled \in BOOLEAN : setAutoAssign(enabled)
  \/ clear
  \/ CmsTick

InitCms == Mounted /\ options = CallOptions /\ observer = "cms"

\* the CallManagementSystem
SpecCms == InitCms /\ [][NextCms]_vars

(***************************************************************************)
(* The SilenceDetector of the audio silence test suite and its             *)
(* MockAudioTrack.  A track keeps the list of its 'audioLevel' listeners;  *)
(* a listener is the arrow function addAudioTrack registers ("listener")   *)
(* or the method this.handleAudioLevel itself ("handleAudioLevel"), which  *)
(* is what removeAudioTrack and stopMonitoring hand to off().  A track     *)
(* emits a level at any time, tracked or not.                              *)
(***************************************************************************)
\* MockAudioTrack.on(event, callback): the listeners after it
MockAudioTrack_on(listeners, callback) == Append(listeners, callback)

\* MockAudioTrack.off(event, callback): indexOf(callback), and splice if found
MockAudioTrack_off(listeners, callback) ==
  IF \E i \in 1..Len(listeners) : listeners[i] = callback
    THEN LET index == CHOOSE i \in 1..Len(listeners) :
                        /\ listeners[i] = callback
                        /\ \A j \in 1..(i - 1) : listeners[j] # callback
         IN  SubSeq(listeners, 1, index - 1) \o
             SubSeq(listeners, index + 1, Len(listeners))
    ELSE listeners

\* resetSilenceTimer(): the timers and the detector after it
AudioSilenceDetector_resetSilenceTimer(ts, d) ==
  LET ts1 == IF d.silenceTimeoutRef # Null THEN ClearTimer(ts, d.silenceTimeoutRef)
                                           ELSE ts
      ts2 == IF d.debounceTimeoutRef # Null THEN ClearTimer(ts1, d.debounceTimeoutRef)
                                            ELSE ts1
      id  == FreshId(ts2, {})
  IN  IF d.isActive
        THEN [timers |-> ts2 \cup {[id |-> id, kind |-> "silence",
                                    due |-> now + options.silenceThreshold]},
              audio  |-> [d EXCEPT !.lastAudioActivityRef = now,
                                   !.silenceTimeoutRef = id,
                                   !.debounceTimeoutRef = Null]]
        ELSE [timers |-> ts2,
              audio  |-> [d EXCEPT !.lastAudioActivityRef = now,
                                   !.silenceTimeoutRef = Null,
                                   !.debounceTimeoutRef = Null]]

\* handleAudioLevel(level): the timers and the detector after it
AudioSilenceDetector_handleAudioLevel(level, ts, d) ==
  IF level > options.audioLevelThreshold
    THEN LET ts1 == IF d.debounceTimeoutRef # Null
                      THEN ClearTimer(ts, d.debounceTimeoutRef) ELSE ts
             id  == FreshId(ts1, {d.silenceTimeoutRef} \ {Null})
         IN  [timers |-> ts1 \cup {[id |-> id, kind |-> "debounce",
                                    due |-> now + options.debounceDelay]},
              audio  |-> [d EXCEPT !.debounceTimeoutRef = id]]
    ELSE [timers |-> ts, audio |-> d]

\* listeners.forEach(callback => callback(level)): every listener of the
\* detector calls handleAudioLevel(level)
RECURSIVE ForEachListener(_, _, _, _)
ForEachListener(listeners, level, ts, d) ==
  IF listeners = <<>>
    THEN [timers |-> ts, audio |-> d]
    ELSE LET r == AudioSilenceDetector_handleAudioLevel(level, ts, d)
         IN  ForEachListener(Tail(listeners), level, r.timers, r.audio)

\* what a step of this SilenceDetector leaves alone
SuiteFrame ==
  UNCHANGED <<now, silenceTimeoutRef, debounceTimeoutRef, lastAudioActivityRef,
              audioTracksRef, audioLevelCheckRef, inflight, options, histVars,
              observer, uiVars, detectorVars, cmsVars>>

\* track.simulateAudioLevel(level)
MockAudioTrack_simulateAudioLevel(h, level) ==
  /\ LET r == ForEachListener(eventListeners[h], level, timers, audio)
     IN  /\ timers' = r.timers
         /\ audio' = r.audio
  /\ stray' = IF eventListeners[h] # <<>> /\ level > options.audioLevelThreshold
                THEN h \notin audio.audioTracks
                ELSE stray
  /\ UNCHANGED eventListeners
  /\ SuiteFrame

\* addAudioTrack(track)
AudioSilenceDetector_addAudioTrack(h) ==
  /\ h \in audio.audioTracks \/ Len(eventListeners[h]) < MaxListeners
  /\ IF h \in audio.audioTracks
       THEN UNCHANGED <<timers, suiteVars>>
       ELSE LET d1 == [audio EXCEPT !.audioTracks = @ \cup {h}]
                r  == IF audio.isActive
                        THEN AudioSilenceDetector_resetSilenceTimer(timers, d1)
                        ELSE [timers |-> timers, audio |-> d1]
            IN  /\ eventListeners' =
                     [eventListeners EXCEPT ![h] = MockAudioTrack_on(@, "listener")]
                /\ timers' = r.timers
                /\ audio' = r.audio
                /\ stray' = (stray /\ ~audio.isActive)
  /\ SuiteFrame

\* removeAudioTrack(track)
AudioSilenceDetector_removeAudioTrack(h) ==
  /\ audio' = [audio EXCEPT !.audioTracks = @ \ {h}]
  /\ eventListeners' =
       [eventListeners EXCEPT ![h] = MockAudioTrack_off(@, "handleAudioLevel")]
  /\ UNCHANGED <<timers, stray>>
  /\ SuiteFrame

\* startMonitoring()
AudioSilenceDetector_startMonitoring ==
  /\ LET r == AudioSilenceDetector_resetSilenceTimer(
                timers, [audio EXCEPT !.isActive = TRUE])
     IN  /\ timers' = r.timers
         /\ audio' = r.audio
  /\ stray' = FALSE
  /\ UNCHANGED eventListeners
  /\ SuiteFrame

\* stopMonitoring()
AudioSilenceDetector_stopMonitoring ==
  /\ LET ts1 == IF audio.silenceTimeoutRef # Null
                  THEN ClearTimer(timers, audio.silenceTimeoutRef) ELSE timers
         ts2 == IF audio.debounceTimeoutRef # Null
                  THEN ClearTimer(ts1, audio.debounceTimeoutRef) ELSE ts1
     IN  timers' = ts2
  /\ audio' = [audio EXCEPT !.isActive = FALSE, !.silenceTimeoutRef = Null,
                            !.debounceTimeoutRef = Null, !.audioTracks = {}]
  /\ eventListeners' =
       [h \in Tracks |->
          IF h \in audio.audioTracks
            THEN MockAudioTrack_off(eventListeners[h], "handleAudioLevel")
            ELSE eventListeners[h]]
  /\ stray' = FALSE
  /\ SuiteFrame

\* the silence timer runs: onSilenceCallback()
AudioSilenceDetector_onSilence ==
  /\ \E t \in Due("silence") : timers' = timers \ {t}
  /\ UNCHANGED suiteVars
  /\ SuiteFrame

\* the debounce timer runs: resetSilenceTimer()
AudioSilenceDetector_debounced ==
  /\ \E t \in Due("debounce") :
       LET r == AudioSilenceDetector_resetSilenceTimer(timers \ {t}, audio)
       IN  /\ timers' = r.timers
           /\ audio' = r.audio
  /\ stray' = FALSE
  /\ UNCHANGED eventListeners
  /\ SuiteFrame

SuiteTick ==
  /\ Tick
  /\ UNCHANGED <<histVars, observer, uiVars, detectorVars, cmsVars, suiteVars>>

NextSuite ==
  \/ \E h \in Tracks : AudioSilenceDetector_addAudioTrack(h)
  \/ \E h \in Tracks : AudioSilenceDetector_removeAudioTrack(h)
  \/ AudioSilenceDetector_startMonitoring
  \/ AudioSilenceDetector_stopMonitoring
  \/ \E h \in Tracks, level \in StatsLevels : MockAudioTrack_simulateAudioLevel(h, level)
  \/ AudioSilenceDetector_onSilence
  \/ AudioSilenceDetector_debounced
  \/ SuiteTick

InitSuite == Mounted /\ options \in OptionChoices /\ observer = "suite"

\* the SilenceDetector of the audio silence test suite
SpecSuite == InitSuite /\ [][NextSuite]_vars

(***************************************************************************)
(* Properties                                                              *)
(***************************************************************************)
T == options.silenceThreshold

D == options.debounceDelay

\* what ran at time d, and only then, as seen at time `now`
RanOnceAt(log, d) ==
  /\ now < d => log = <<>>
  /\ now = d => log \in {<<>>, <<d>>}
  /\ now > d => log = <<d>>

\* C1: after startMonitoring() at time t, as long as no other call is made,
\* onSilenceDetected has run exactly once from t + silenceThreshold on and
\* not at all before; until it runs, the silence timer is pending for that time.
C1_FiresOnceAtThreshold ==
  lastOp.kind = "start" =>
    /\ RanOnceAt(firedSince, lastOp.at + T)
    /\ firedSince = <<>> => DueTime(timers, "silence") = lastOp.at + T

C1_Witness ==
  /\ lastOp.kind = "start"
  /\ audioTracksRef = {}
  /\ now > lastOp.at + T
  /\ firedSince = <<lastOp.at + T>>

\* C2: while monitoring, after an above-threshold sample at time s, made
\* more than debounceDelay before the silence timer is due, and no other call:
\* the reset runs once, at r = s + debounceDelay, lastAudioActivityRef is r
\* from then on, and onSilenceDetected runs once, at r + silenceThreshold,
\* and not before (in particular not when the earlier timer was due).
C2_ResetAfterDebounce ==
  ( /\ lastOp.kind = "reportLevel" /\ Above(lastOp.level)
    /\ pre.monitoring
    /\ pre.silenceDue >= 0
    /\ lastOp.at < pre.silenceDue - D )
  => /\ RanOnceAt(resetsSince, lastOp.at + D)
     /\ lastAudioActivityRef =
          IF resetsSince = <<>> THEN pre.lastActivity ELSE lastOp.at + D
     /\ RanOnceAt(firedSince, lastOp.at + D + T)

C2_Witness ==
  /\ lastOp.kind = "reportLevel" /\ Above(lastOp.level)
  /\ pre.monitoring
  /\ pre.silenceDue >= 0
  /\ lastOp.at < pre.silenceDue - D
  /\ lastOp.at > 0
  /\ now > lastOp.at + D + T
  /\ lastAudioActivityRef = lastOp.at + D
  /\ firedSince = <<lastOp.at + D + T>>

\* C3: a sample at or below audioLevelThreshold (at it, too) changes nothing
\* of the hook: no timer is scheduled or cancelled, the refs and
\* lastAudioActivityRef stay; so with no debounce pending and no other call,
\* onSilenceDetected runs once, when the silence timer was due all along.
C3_LowSampleChangesNothing ==
  /\ [][(\E h \in Tracks, level \in StatsLevels :
            ~Above(level) /\ StatsResolve(h, level))
        => UNCHANGED hookVars]_vars
  /\ []( ( /\ lastOp.kind = "reportLevel" /\ ~Above(lastOp.level)
           /\ pre.silenceDue >= 0
           /\ pre.debounceDue = -1 )
         => RanOnceAt(firedSince, pre.silenceDue) )

C3_Witness ==
  /\ lastOp.kind = "reportLevel"
  /\ lastOp.level = options.audioLevelThreshold
  /\ pre.silenceDue >= 0
  /\ pre.debounceDue = -1
  /\ lastOp.at > pre.lastActivity
  /\ now > pre.silenceDue
  /\ firedSince = <<pre.silenceDue>>

\* C5: after stopMonitoring() called with the silence timer pending, as long
\* as no other call is made, onSilenceDetected does not run and no silence
\* timer is pending.
C5_StopCancelsSilence ==
  (lastOp.kind = "stop" /\ pre.silenceDue >= 0)
  => (firedSince = <<>> /\ Pending("silence") = {})

C5_Witness ==
  /\ lastOp.kind = "stop"
  /\ pre.silenceDue >= 0
  /\ now > pre.silenceDue
  /\ firedSince = <<>>

\* C6: after stopMonitoring() called with a debounce timer pending, as long
\* as no other call is made, the debounced reset does not run:
\* lastAudioActivityRef keeps its value and no silence timer, nor debounce
\* timer, is pending.
C6_StopCancelsDebounce ==
  (lastOp.kind = "stop" /\ pre.debounceDue >= 0)
  => /\ resetsSince = <<>>
     /\ lastAudioActivityRef = pre.lastActivity
     /\ Pending("silence") = {}
     /\ Pending("debounce") = {}

C6_Witness ==
  /\ lastOp.kind = "stop"
  /\ pre.debounceDue >= 0
  /\ now > pre.debounceDue + T
  /\ lastAudioActivityRef = pre.lastActivity

\* C10: addAudioTrack(h) of a tracked handle changes nothing of the hook: the
\* tracked set (so its size), lastAudioActivityRef, the timers and the refs stay.
C10_AddTrackedIsNoOp ==
  [][\A h \in Tracks :
       (h \in audioTracksRef /\ AddAudioTrack(h))
       => (UNCHANGED hookVars
           /\ Cardinality(audioTracksRef') = Cardinality(audioTracksRef))]_vars

C10_Witness ==
  /\ lastOp.kind = "addTrack"
  /\ lastOp.track \in pre.tracks
  /\ now = lastOp.at
  /\ Cardinality(audioTracksRef) = 1
  /\ pre.silenceDue >= 0
  /\ pre.debounceDue >= 0
  /\ lastOp.at > pre.lastActivity
  /\ lastAudioActivityRef = pre.lastActivity

\* the monitor is Monitoring: startMonitoring() was called and stopMonitoring()
\* has not been called since (the sampling interval lives exactly that long)
Monitoring == audioLevelCheckRef # Null

\* C11: a silence timer or a debounce timer is pending only while the monitor
\* is Monitoring; while it is Idle, no such timer is pending.
C11_TimersOnlyWhileMonitoring ==
  ~Monitoring => (Pending("silence") = {} /\ Pending("debounce") = {})

\* C12: addAudioTrack(h) of a new handle while the monitor is Idle adds h to
\* the tracked set and leaves the timers as they are: none armed, none cancelled.
C12_IdleAddArmsNothing ==
  [][\A h \in Tracks :
       (~Monitoring /\ h \notin audioTracksRef /\ AddAudioTrack(h))
       => (audioTracksRef' = audioTracksRef \cup {h} /\ timers' = timers)]_vars

\* C13: while Monitoring, after addAudioTrack(h) of a handle not tracked, called
\* at time t, as long as no other call is made: h is tracked,
\* lastAudioActivityRef is t, the silence timer that was pending is gone and
\* one is pending for t + silenceThreshold until it runs, and
\* onSilenceDetected runs once, at t + silenceThreshold, and not before.
C13_AddTrackRearms ==
  ( /\ lastOp.kind = "addTrack"
    /\ lastOp.track \notin pre.tracks
    /\ pre.monitoring )
  => /\ audioTracksRef = pre.tracks \cup {lastOp.track}
     /\ lastAudioActivityRef = lastOp.at
     /\ RanOnceAt(firedSince, lastOp.at + T)
     /\ \A t \in Pending("silence") : t.due = lastOp.at + T
     /\ firedSince = <<>> => Cardinality(Pending("silence")) = 1

C13_Witness ==
  /\ lastOp.kind = "addTrack"
  /\ lastOp.track \notin pre.tracks
  /\ pre.monitoring
  /\ pre.silenceDue >= 0
  /\ pre.silenceDue < lastOp.at + T
  /\ now > pre.silenceDue
  /\ now < lastOp.at + T
  /\ firedSince = <<>>

\* C14: removeAudioTrack(h) can always be called and removes h from the
\* tracked set and nothing else: every other handle stays, the timers, the
\* refs and lastAudioActivityRef stay, and when h is not tracked (a second
\* removal, say) nothing changes at all.
C14_RemoveOnlyRemoves ==
  /\ [](\A h \in Tracks : ENABLED RemoveAudioTrack(h))
  /\ [][\A h \in Tracks :
          RemoveAudioTrack(h)
          => /\ audioTracksRef' = audioTracksRef \ {h}
             /\ UNCHANGED <<timers, silenceTimeoutRef, debounceTimeoutRef,
                            lastAudioActivityRef, audioLevelCheckRef>>
             /\ h \notin audioTracksRef => UNCHANGED hookVars]_vars

C14_Witness ==
  /\ lastOp.kind = "removeTrack"
  /\ lastOp.track \notin pre.tracks
  /\ pre.tracks # {}
  /\ audioTracksRef = pre.tracks
  /\ pre.silenceDue >= 0
  /\ pre.debounceDue >= 0
  /\ DueTime(timers, "silence") = pre.silenceDue
  /\ DueTime(timers, "debounce") = pre.debounceDue
  /\ lastOp.at > pre.lastActivity
  /\ lastAudioActivityRef = pre.lastActivity

\* C15: after recordActivity() at time t, as long as no other call is made, no
\* debounce timer is pending and no debounced reset runs, lastAudioActivityRef
\* stays t, and onSilenceDetected runs once, at t + silenceThreshold.
C15_RecordActivityCancelsDebounce ==
  lastOp.kind = "recordActivity"
  => /\ Pending("debounce") = {}
     /\ resetsSince = <<>>
     /\ lastAudioActivityRef = lastOp.at
     /\ RanOnceAt(firedSince, lastOp.at + T)

C15_Witness ==
  /\ lastOp.kind = "recordActivity"
  /\ pre.debounceDue > lastOp.at
  /\ now > lastOp.at + T
  /\ lastAudioActivityRef = lastOp.at
  /\ firedSince = <<lastOp.at + T>>

\* C16: after startMonitoring() called at time t while Monitoring, as long as
\* no other call is made: at most one silence timer is pending, one for
\* t + silenceThreshold until it runs and none after, and onSilenceDetected
\* runs once, at t + silenceThreshold, not when the earlier timer was due.
C16_RestartRearms ==
  (lastOp.kind = "start" /\ pre.monitoring)
  => /\ Cardinality(Pending("silence")) <= 1
     /\ \A t \in Pending("silence") : t.due = lastOp.at + T
     /\ firedSince = <<>> => Cardinality(Pending("silence")) = 1
     /\ firedSince # <<>> => Pending("silence") = {}
     /\ RanOnceAt(firedSince, lastOp.at + T)
     /\ Cardinality(Pending("interval")) = 1

C16_Witness ==
  /\ lastOp.kind = "start"
  /\ pre.monitoring
  /\ pre.silenceDue > lastOp.at
  /\ pre.silenceDue < lastOp.at + T
  /\ now > lastOp.at + T
  /\ firedSince = <<lastOp.at + T>>

\* C17: stopMonitoring() can always be called; after it, from Monitoring or
\* from Idle, as long as no other call is made, no timer is pending, the refs
\* are null and no track is tracked; and calling it again then changes nothing.
C17_StopIdempotent ==
  /\ [](ENABLED StopMonitoring)
  /\ [](lastOp.kind = "stop"
          => /\ timers = {}
             /\ audioTracksRef = {}
             /\ silenceTimeoutRef = Null
             /\ debounceTimeoutRef = Null
             /\ audioLevelCheckRef = Null)
  /\ [][(lastOp.kind = "stop" /\ StopMonitoring) => UNCHANGED hookVars]_vars

C17_Witness ==
  /\ lastOp.kind = "stop"
  /\ ~pre.monitoring
  /\ pre.tracks = {}
  /\ pre.silenceDue = -1
  /\ pre.debounceDue = -1
  /\ lastOp.at > 0
  /\ lastAudioActivityRef > 0
  /\ now > lastOp.at
  /\ timers = {}

\* C18: once onSilenceDetected has run, it does not run again by itself: as
\* long as no call is made and no debounced reset runs after it, it has run
\* once and no silence timer is pending.
C18_NoRearmAfterFire ==
  (firedSince # <<>> /\ resetsSince = <<>>)
  => /\ Len(firedSince) = 1
     /\ Pending("silence") = {}

C18_Witness ==
  /\ Len(firedSince) = 1
  /\ resetsSince = <<>>
  /\ Pending("debounce") = {}
  /\ Monitoring
  /\ now >= firedSince[1] + T

\* C19: in CallInterface, a connected call in which handleAudioLevel saw no
\* level above the threshold, and the microphone was not unmuted, has been
\* ended by onSilenceDetected (handleEndCall) when silenceThreshold (10 s) has
\* passed since it connected: no such call is connected after that time.
C19_SilentCallEnded ==
  ~( /\ callStatus = "connected"
     /\ call.quiet
     /\ now > call.connectedAt + T )

\* C20: SilenceDetector: after startMonitoring(T) and then onSpeechDetected()
\* at time s, as long as no other call is made, the callback runs once, T
\* after s, whatever T is.
C20_ThresholdKept ==
  (heard.threshold > 0 /\ heard.speechAt > heard.startAt)
  => RanOnceAt(heard.fired, heard.speechAt + heard.threshold)

\* C21: any two calls of the CallManagementSystem differ in id and in roomId.
C21_UniqueIds ==
  \A i, j \in 1..Len(calls) :
    i # j => (calls[i].id # calls[j].id /\ calls[i].roomId # calls[j].roomId)

\* the call, the agent, that find(x => x.id === id) gives
CallOf(id) == calls[FindIndex(calls, id)]

AgentOf(id) == agents[FindIndex(agents, id)]

\* assignCall(callId, agentId) has nothing to assign: no call has the id, no
\* agent has the id, or the agent is not available
Unassignable(callId, agentId) ==
  \/ FindIndex(calls, callId) = 0
  \/ FindIndex(agents, agentId) = 0
  \/ AgentOf(agentId).status # "available"

\* C22: assignCall(callId, agentId) with an unknown call id, an unknown agent
\* id or an agent that is not available returns false and leaves the calls
\* and the agents as they are, and returns true otherwise; no step gives a
\* busy agent another call.
C22_AssignRefused ==
  /\ [][\A callId \in IdChoices, agentId \in IdChoices :
          assignCall(callId, agentId)
          => IF Unassignable(callId, agentId)
               THEN ~cmsLast'.result /\ UNCHANGED <<calls, agents, autoAssign>>
               ELSE cmsLast'.result]_vars
  /\ [][\A i \in 1..Len(agents) :
          (agents[i].status = "busy" /\ i <= Len(agents'))
          => agents'[i].currentCallId \in {agents[i].currentCallId, Undefined}]_vars

C22_Witness ==
  /\ cmsLast.op = "assignCall"
  /\ ~cmsLast.result
  /\ FindIndex(calls, cmsLast.callId) # 0
  /\ FindIndex(agents, cmsLast.agentId) # 0
  /\ CallOf(cmsLast.callId).status = "waiting"
  /\ AgentOf(cmsLast.agentId).status = "busy"
  /\ AgentOf(cmsLast.agentId).currentCallId # cmsLast.callId
  /\ C21_UniqueIds

\* C23: after receiveCall, the new call is connected to an agent exactly when
\* autoAssign was enabled and an agent was available at the call; otherwise
\* it is waiting, with no agent.
C23_AutoAssignExactly ==
  cmsLast.op = "receiveCall" =>
    LET newCall == calls[Len(calls)]
    IN  IF cmsLast.auto /\ cmsLast.available
          THEN newCall.status = "connected" /\ newCall.agentId # Undefined
          ELSE newCall.status = "waiting" /\ newCall.agentId = Undefined

\* C24: endCall(callId) returns true exactly when a call has the id; that call
\* is ended then, its agent, if it had one, is available with no current
\* call, and the other calls are as they were; endCall of an unknown id
\* changes nothing.
C24_EndCallFreesAgent ==
  /\ [](cmsLast.op = "endCall" =>
          /\ cmsLast.result <=> FindIndex(calls, cmsLast.callId) # 0
          /\ cmsLast.result =>
               /\ CallOf(cmsLast.callId).status = "ended"
               /\ CallOf(cmsLast.callId).agentId # Undefined =>
                    /\ FindIndex(agents, CallOf(cmsLast.callId).agentId) # 0
                    /\ AgentOf(CallOf(cmsLast.callId).agentId).status = "available"
                    /\ AgentOf(CallOf(cmsLast.callId).agentId).currentCallId
                         = Undefined)
  /\ [][\A callId \in IdChoices :
          endCall(callId)
          => /\ FindIndex(calls, callId) = 0 => UNCHANGED <<calls, agents, autoAssign>>
             /\ Len(calls') = Len(calls)
             /\ \A i \in 1..Len(calls) :
                  i # FindIndex(calls, callId) => calls'[i] = calls[i]]_vars

C24_Witness ==
  /\ cmsLast.op = "endCall"
  /\ cmsLast.result
  /\ CallOf(cmsLast.callId).status = "ended"
  /\ CallOf(cmsLast.callId).agentId # Undefined
  /\ AgentOf(CallOf(cmsLast.callId).agentId).status = "available"
  /\ Len(calls) = 2
  /\ C21_UniqueIds
  /\ \E i \in 1..Len(calls) : calls[i].status = "waiting"

\* C25: at every instant at most one silence timer and at most one debounce
\* timer is pending, and it is the one the ref holds: the timer an arming
\* replaced is cancelled, it is no longer pending and cannot run.
C25_OneTimerOfAKind ==
  /\ Cardinality(Pending("silence")) <= 1
  /\ Cardinality(Pending("debounce")) <= 1
  /\ \A t \in Pending("silence") : t.id = silenceTimeoutRef
  /\ \A t \in Pending("debounce") : t.id = debounceTimeoutRef

C25_Witness ==
  /\ lastOp.kind = "reportLevel" /\ Above(lastOp.level)
  /\ pre.silenceDue >= 0
  /\ pre.debounceDue >= 0
  /\ pre.debounceDue < lastOp.at + D
  /\ now = pre.debounceDue
  /\ Due("debounce") = {}
  /\ resetsSince = <<>>
  /\ Cardinality(Pending("debounce")) = 1
  /\ Cardinality(Pending("silence")) = 1

\* C26: sliding window.  A pending silence timer is due silenceThreshold
\* after lastAudioActivityRef, the time of the latest reset, so whenever
\* onSilenceDetected runs, exactly silenceThreshold has passed since
\* lastAudioActivityRef, whatever silence there was before that reset.
C26_SlidingWindow ==
  /\ [](\A t \in Pending("silence") : t.due = lastAudioActivityRef + T)
  /\ [][SilenceFire => now - lastAudioActivityRef = T]_vars

C26_Witness ==
  /\ lastOp.kind = "reportLevel"
  /\ pre.silenceDue >= 0
  /\ pre.lastActivity < lastOp.at
  /\ resetsSince = <<lastOp.at + D>>
  /\ lastAudioActivityRef = lastOp.at + D
  /\ firedSince = <<lastAudioActivityRef + T>>
  /\ now = lastAudioActivityRef + T

\* C27: a getStats() promise that settles while the monitor is Idle (it was
\* asked before stopMonitoring()) schedules no debounce timer, arms no
\* silence timer and leaves lastAudioActivityRef as it is.
C27_LateSampleIgnored ==
  [][( /\ ~Monitoring
       /\ \/ \E h \in Tracks, level \in StatsLevels : StatsResolve(h, level)
          \/ \E h \in Tracks : StatsReject(h) )
     => UNCHANGED <<timers, silenceTimeoutRef, debounceTimeoutRef,
                    lastAudioActivityRef>>]_vars

\* C28: in CallInterface, the render after the call-duration update, which
\* leaves callStatus as it is, keeps the tracked set and the pending silence
\* timer: it does not call stopMonitoring() nor startMonitoring().
C28_RerenderKeepsMonitor ==
  [][DurationTick =>
       /\ audioTracksRef' = audioTracksRef
       /\ DueTime(timers', "silence") = DueTime(timers, "silence")
       /\ lastAudioActivityRef' = lastAudioActivityRef]_vars

\* C29: the monitor is never Monitoring with a debounceDelay at or above its
\* silenceThreshold.
C29_DebounceBelowThreshold ==
  Monitoring => options.debounceDelay < options.silenceThreshold

\* C30: lastAudioActivityRef never decreases; it changes only in
\* startMonitoring(), addAudioTrack of a new handle, recordActivity() and the
\* debounced reset; and after stopMonitoring() it keeps its value until the
\* next startMonitoring().
C30_LastActivityOnlyByReset ==
  [][ /\ lastAudioActivityRef' >= lastAudioActivityRef
      /\ lastAudioActivityRef' # lastAudioActivityRef =>
           \/ StartMonitoring
           \/ RecordActivity
           \/ DebounceFire
           \/ \E h \in Tracks : h \notin audioTracksRef /\ AddAudioTrack(h)
      /\ lastOp.kind = "stop" =>
           (lastAudioActivityRef' = lastAudioActivityRef \/ StartMonitoring) ]_vars

Covered ==
  /\ audioLevelCheckRef # Null
  /\ samples.ok
  /\ now - samples.last < T

\* C7: with two tracked tracks, while monitoring, onSilenceDetected does not
\* run as long as every stretch of silenceThreshold has had an
\* above-threshold sample of one of the tracks (stated for the firings at
\* which no debounced reset is due: at a tie either timer may run first).
C7_NoFireWhileSampled ==
  [][SilenceFire =>
       ~( /\ Covered
          /\ Cardinality(audioTracksRef) = 2
          /\ Due("debounce") = {} )]_vars

\* C8: while monitoring, onSilenceDetected does not run during a stream of
\* above-threshold samples that come less than debounceDelay apart (stated
\* for the streams of two samples and more that have lasted longer than
\* debounceDelay, so that the first sample alone would have reset before, and
\* for the firings at which no debounced reset is due).
C8_NoFireDuringStream ==
  [][SilenceFire =>
       ~( /\ audioLevelCheckRef # Null
          /\ burst.calls >= 2
          /\ burst.resets = 0
          /\ now - samples.last < D
          /\ now - burst.first > D
          /\ Due("debounce") = {} )]_vars

\* C9: late join.  After startMonitoring() with no track, silence shorter
\* than silenceThreshold, addAudioTrack(h), then an above-threshold sample of
\* h whose debounceDelay ends before the silence timer armed by addAudioTrack
\* is due, and no other call: the reset runs once, at r = sample time +
\* debounceDelay, and onSilenceDetected runs at r + silenceThreshold and not
\* before; the silence before addAudioTrack does not count.
C9_LateJoin ==
  (late.stage = 3 /\ late.sampleAt + D < late.joinAt + T)
  => /\ RanOnceAt(resetsSince, late.sampleAt + D)
     /\ resetsSince # <<>> => lastAudioActivityRef = late.sampleAt + D
     /\ RanOnceAt(firedSince, late.sampleAt + D + T)

C9_Witness ==
  /\ late.stage = 3
  /\ late.joinAt > late.startAt
  /\ late.sampleAt = late.joinAt
  /\ resetsSince = <<late.sampleAt + D>>
  /\ now = late.sampleAt + D + T - 1
  /\ now > late.startAt + T
  /\ firedSince = <<>>

\* C32: while monitoring, after an above-threshold sample made less than
\* debounceDelay before the silence timer is due (so that its debounce timer
\* is still pending when the timer runs) and no other call, in particular no
\* stopMonitoring(): onSilenceDetected has run at most once.
C32_FiresAtMostOnce ==
  ( /\ lastOp.kind = "reportLevel" /\ Above(lastOp.level)
    /\ pre.monitoring
    /\ pre.silenceDue >= 0
    /\ lastOp.at > pre.silenceDue - D
    /\ lastOp.at <= pre.silenceDue )
  => Len(firedSince) <= 1

\* C35: at most one sampling interval is pending at any time; while
\* monitoring it is the one audioLevelCheckRef holds, and while the monitor is
\* Idle (after stopMonitoring(), or before the first startMonitoring()) none
\* is pending, so the interval callback samples the tracks only while
\* monitoring.
C35_OneSamplingInterval ==
  /\ [](/\ Cardinality(Pending("interval")) <= 1
        /\ Monitoring => TimerIds(Pending("interval")) = {audioLevelCheckRef}
        /\ ~Monitoring => Pending("interval") = {})
  /\ [][(CheckTickQuiet \/ \E h \in Tracks : CheckTickLive(h)) => Monitoring]_vars

\* startMonitoring() was called while monitoring, with a track, and the
\* interval it created has run since
C35_Witness ==
  /\ lastOp.kind = "start"
  /\ pre.monitoring
  /\ pre.tracks # {}
  /\ now >= lastOp.at + CheckInterval
  /\ Cardinality(Pending("interval")) = 1

\* C33: in the CallManagementSystem an agent is busy exactly when a connected
\* call has the agent's id as its agentId, the currentCallId of a busy agent
\* is the id of such a call, and every connected call has a busy agent.
C33_BusyIffConnected ==
  /\ \A i \in 1..Len(agents) :
       agents[i].status = "busy"
       <=> \E j \in 1..Len(calls) : /\ calls[j].status = "connected"
                                    /\ calls[j].agentId = agents[i].id
  /\ \A i \in 1..Len(agents) :
       agents[i].status = "busy"
       => \E j \in 1..Len(calls) : /\ calls[j].status = "connected"
                                   /\ calls[j].agentId = agents[i].id
                                   /\ agents[i].currentCallId = calls[j].id
  /\ \A j \in 1..Len(calls) :
       calls[j].status = "connected"
       => \E i \in 1..Len(agents) : /\ agents[i].id = calls[j].agentId
                                    /\ agents[i].status = "busy"

\* C34: no step of the CallManagementSystem moves a call backwards: an ended
\* call stays ended, a connected call stays connected or becomes ended, and a
\* connected call keeps its agentId (clear() removes the calls).
C34_StatusMovesForward ==
  [][\A i \in 1..Len(calls) :
       i <= Len(calls')
       => /\ calls[i].status = "ended" => calls'[i].status = "ended"
          /\ calls[i].status = "connected"
             => /\ calls'[i].status \in {"connected", "ended"}
                /\ calls'[i].agentId = calls[i].agentId]_vars

\* C31: an audio-level event of a track the SilenceDetector of the audio
\* silence suite does not track (the track was removed, or the detector
\* was stopped) does not reach the detector: it schedules no debounce timer
\* (the timers and the detector are as they were), and no debounce timer
\* scheduled by such an event runs, changing lastAudioActivityRef or arming
\* the silence timer.
C31_RemovedTrackUnheard ==
  /\ [][\A h \in Tracks, level \in StatsLevels :
          (h \notin audio.audioTracks /\ MockAudioTrack_simulateAudioLevel(h, level))
          => UNCHANGED <<timers, audio>>]_vars
  /\ [][(stray /\ AudioSilenceDetector_debounced)
        => /\ audio'.lastAudioActivityRef = audio.lastAudioActivityRef
           /\ Pending("silence")' = Pending("silence")]_vars

====
